---- MODULE Spec2Model ----
(***************************************************************************)
(* Model of robosuite/scripts/demo_device_control.py: the teleoperation    *)
(* script that turns device snapshots into end-effector actions.           *)
(*                                                                         *)
(* Real numbers are fixed-point integers in hundredths (One = 1.0), so     *)
(* 0.1 is 10 and 1.7 is 170; floating-point rounding is not modelled.      *)
(* Rotation matrices are 3x3 integer matrices (entries -1, 0, 1).          *)
(***************************************************************************)
EXTENDS Integers, Sequences, FiniteSets, TLC

VARIABLES
    pc,               \* position of the script
    controller,       \* args.controller
    device_choice,    \* args.device
    robot_name,       \* env.mujoco_robot.name
    file_exists,      \* whether open(controller_path) succeeds
    controller_config,\* the loaded configuration, or NoConfig (None)
    cumulative_dpos,  \* the accumulator, or Undefined (name never bound)
    joints,           \* who last set the robot's joints (and to what)
    device_started,   \* device.start_control() has been called
    state,            \* last snapshot of device.get_controller_state()
    current,          \* last read of env._right_hand_orn
    action,           \* last assembled action
    episode,          \* number of env.reset() calls made by the loop
    streak,           \* observation: consecutive ticks with dpos = UnitX since the episode start
    polled,           \* some device poll has happened
    stepped,          \* some env.step has happened
    printed,          \* diagnostics printed so far
    error,            \* the exception that ended the process, if any
    drotation,        \* the relative rotation matrix of line 145
    done,             \* the done flag returned by the last env.step
    ops,              \* observation: operations since the episode start or the last poll
    cumulative_at_poll \* observation: the accumulator when the last poll happened

vars == <<pc, controller, device_choice, robot_name, file_exists,
          controller_config, cumulative_dpos, joints, device_started, state,
          current, action, episode, streak, polled, stepped, printed, error,
          drotation, done, ops, cumulative_at_poll>>

----------------------------------------------------------------------------
(* Bounds *)

MaxEpisodes == 2      \* env.reset() calls explored
MaxAcc == 120         \* largest |x| + |y| + |z| of the accumulator explored (1.20)

----------------------------------------------------------------------------
(* Numbers *)

One == 100            \* the literal 1. in fixed point
DposScale == 10       \* the literal 0.1 in fixed point
MaxAction == 100      \* controller_config["max_action"] = 1
MinAction == -100     \* controller_config["min_action"] = -1
Pi == 314             \* np.pi in fixed point

Zero3 == <<0, 0, 0>>
UnitX == <<One, 0, 0>>

Undefined == <<>>                              \* the name cumulative_dpos is not bound
NoConfig == [path |-> "None", overrides |-> {}]  \* controller_config = None
NoAction == <<>>

Abs(x) == IF x < 0 THEN -x ELSE x

----------------------------------------------------------------------------
(* Inputs *)

Controllers == {"ik", "osc", "joint"}
Devices == {"keyboard", "spacemouse", "gamepad"}
Robots == {"sawyer", "panda", "baxter"}

I3 == <<<<1, 0, 0>>, <<0, 1, 0>>, <<0, 0, 1>>>>
RotZ180 == <<<<-1, 0, 0>>, <<0, -1, 0>>, <<0, 0, 1>>>>
RotX180 == <<<<1, 0, 0>>, <<0, -1, 0>>, <<0, 0, -1>>>>
RotY180 == <<<<-1, 0, 0>>, <<0, 1, 0>>, <<0, 0, -1>>>>

RotZ90 == <<<<0, -1, 0>>, <<1, 0, 0>>, <<0, 0, 1>>>>
RotZ270 == <<<<0, 1, 0>>, <<-1, 0, 0>>, <<0, 0, 1>>>>

Rotations == {I3, RotZ90, RotZ180}

DposValues == {Zero3, UnitX, <<0, -6 * One, 0>>}
GraspValues == {0, One, 170, 2 * One}

\* the snapshots explored: every dpos with every rotation, the grasp values
\* spread over the rotations
GraspFor(r) ==
    IF r = I3 THEN {0, One}
    ELSE IF r = RotZ90 THEN {170}
    ELSE {2 * One}

NoState == [dpos |-> Zero3, rotation |-> I3, grasp |-> 0, reset |-> FALSE]

----------------------------------------------------------------------------
(* Pure parts of the script *)

\* lines 61-67: the controller choices that do not raise ValueError
ControllerSupported(c) == c \in {"ik", "osc"}

\* lines 61-64
ControllerPath(c) ==
    IF c = "ik" THEN "controllers/config/ee_ik.json"
    ELSE IF c = "osc" THEN "controllers/config/ee_pos_ori.json"
    ELSE "None"

\* lines 69-74: json.load, then the OSC overrides
LoadedConfig(c) ==
    [path |-> ControllerPath(c),
     overrides |-> IF c = "osc"
                   THEN {<<"max_action", MaxAction>>, <<"min_action", MinAction>>,
                         <<"control_delta", 0>>}
                   ELSE {}]

\* lines 71-76: cumulative_dpos = 0 is bound only inside the OSC branch of
\* the with block (the scalar 0 broadcasts to the zero vector on first use)
InitialCumulative(c) == IF c = "osc" THEN Zero3 ELSE Undefined

DeviceSupported_Any(d) == TRUE

\* lines 95-109: the device choices that do not raise Exception
DeviceSupported(d) == d \in {"keyboard", "spacemouse"}

RobotRecognized_Any(n) == TRUE

\* lines 117-125: the robot names that do not reach sys.exit()
RobotRecognized(n) == n \in {"sawyer", "panda"}

\* line 122: the joint configuration given to env.set_robot_joint_positions
PandaHome ==
    <<0, Pi \div 16, 0, (-(Pi \div 2)) - (Pi \div 3), 0, Pi - 20, -(Pi \div 4)>>

ResetJoints == [by |-> "env.reset", q |-> <<>>]
MovedJoints == [by |-> "env.step", q |-> <<>>]

RehomedJoints_Never(n, j) == j

\* lines 117-122: sawyer is a pass (the call is commented out), panda is re-homed
RehomedJoints(n, j) ==
    IF n = "sawyer" THEN j
    ELSE IF n = "panda" THEN [by |-> "env.set_robot_joint_positions", q |-> PandaHome]
    ELSE j

Transpose(M) == [i \in 1..3 |-> [j \in 1..3 |-> M[j][i]]]

MatMul(A, B) ==
    [i \in 1..3 |-> [j \in 1..3 |->
        A[i][1] * B[1][j] + A[i][2] * B[2][j] + A[i][3] * B[3][j]]]

Drotation_NoTranspose(cur, rot) == MatMul(cur, rot)

\* line 145: drotation = current.T.dot(rotation)
Drotation(cur, rot) == MatMul(Transpose(cur), rot)

\* T.mat2quat, (x, y, z, w), for quarter turns about z and for rotations by
\* 0 or pi about a coordinate axis
mat2quat(M) ==
    IF M = RotZ90 THEN <<0, 0, 71, 71>>
    ELSE IF M = RotZ270 THEN <<0, 0, -71, 71>>
    ELSE
    << (One * (1 + M[1][1] - M[2][2] - M[3][3])) \div 4,
       (One * (1 - M[1][1] + M[2][2] - M[3][3])) \div 4,
       (One * (1 - M[1][1] - M[2][2] + M[3][3])) \div 4,
       (One * (1 + M[1][1] + M[2][2] + M[3][3])) \div 4 >>

\* arctan2(0, x)
Atan2Zero(x) == IF x < 0 THEN Pi ELSE 0

\* arctan2(y, x) for y, x in {-1, 0, 1}
Atan2(y, x) ==
    IF y = 0 THEN Atan2Zero(x)
    ELSE IF y > 0 THEN Pi \div 2
    ELSE -(Pi \div 2)

\* T.mat2euler (static xyz) for quarter turns about z and for rotations by
\* 0 or pi about a coordinate axis
mat2euler(M) == << Atan2(M[3][2], M[3][3]), 0, Atan2(M[2][1], M[1][1]) >>

\* lines 147-152
RotationTerm(c, M) ==
    IF c = "ik" THEN mat2quat(M)
    ELSE IF c = "osc" THEN mat2euler(M)
    ELSE M

\* line 156: dpos * 0.1
Scaled(d) == [i \in 1..3 |-> (d[i] * DposScale) \div One]

VecAdd(a, b) == [i \in 1..3 |-> a[i] + b[i]]

NextCumulative_Twice(c, cum, d) ==
    IF c = "osc" THEN VecAdd(VecAdd(cum, Scaled(d)), Scaled(d)) ELSE cum

NextCumulative_Assign(c, cum, d) ==
    IF c = "osc" THEN Scaled(d) ELSE cum

\* lines 150-156: cumulative_dpos += dpos * 0.1, in the OSC branch only
NextCumulative(c, cum, d) ==
    IF c = "osc" THEN VecAdd(cum, Scaled(d)) ELSE cum

Clamp(x) == IF x > MaxAction THEN MaxAction ELSE IF x < MinAction THEN MinAction ELSE x

PositionTerm_Clamped(c, cum, d) ==
    IF c = "osc" THEN [i \in 1..3 |-> Clamp(NextCumulative(c, cum, d)[i])] ELSE d

PositionTerm_ScaledAlways(c, cum, d) ==
    IF c = "osc" THEN VecAdd(cum, Scaled(d)) ELSE Scaled(d)

\* lines 150-157: dpos = cumulative_dpos, in the OSC branch only
PositionTerm(c, cum, d) ==
    IF c = "osc" THEN NextCumulative(c, cum, d) ELSE d

GraspRemap_Raw(g) == g

\* line 160: grasp = grasp - 1.
GraspRemap(g) == g - One

Concatenate_GraspFirst(pos, rot, g) == <<g>> \o pos \o rot

\* line 162: np.concatenate([dpos, drotation, [grasp]])
Concatenate(pos, rot, g) == pos \o rot \o <<g>>

RehomeOps(n) ==
    IF n = "panda" THEN <<"env.set_robot_joint_positions">> ELSE <<>>

AccumulateOps(c) ==
    IF c = "osc" THEN <<"cumulative_dpos +=">> ELSE <<>>

AfterPoll_NoBreak(rs) == "assemble"

\* lines 138-139: if reset: break (to the env.reset() of line 112)
AfterPoll(rs) == IF rs THEN "episode_start" ELSE "assemble"

AfterRender_BreakOnDone(d) == IF d THEN "episode_start" ELSE "poll"

\* lines 163-164 and 128: done is not looked at, the inner loop goes on
AfterRender(d) == "poll"

\* line 156 raises NameError when cumulative_dpos was never bound
AccumulatorMissing(c, cum) == c = "osc" /\ cum = Undefined

InBounds(v) == Abs(v[1]) + Abs(v[2]) + Abs(v[3]) <= MaxAcc

----------------------------------------------------------------------------
(* The script, one action per step *)

Init ==
    /\ pc = "select_controller"
    /\ controller \in Controllers
    /\ device_choice \in Devices
    /\ robot_name \in Robots
    /\ file_exists \in BOOLEAN
    /\ controller_config = NoConfig
    /\ cumulative_dpos = Undefined
    /\ joints = [by |-> "none", q |-> <<>>]
    /\ device_started = FALSE
    /\ state = NoState
    /\ current = I3
    /\ action = NoAction
    /\ episode = 0
    /\ streak = 0
    /\ polled = FALSE
    /\ stepped = FALSE
    /\ printed = {}
    /\ error = "none"
    /\ drotation = I3
    /\ done = FALSE
    /\ ops = <<>>
    /\ cumulative_at_poll = Undefined

\* lines 58-67
SelectController ==
    /\ UNCHANGED <<drotation, done, ops, cumulative_at_poll>>
    /\ pc = "select_controller"
    /\ IF ControllerSupported(controller)
       THEN /\ pc' = "load_config"
            /\ UNCHANGED <<printed, error>>
       ELSE /\ pc' = "crashed"
            /\ printed' = printed \cup {"Error: Unsupported controller specified"}
            /\ error' = "ValueError"
    /\ UNCHANGED <<controller, device_choice, robot_name, file_exists,
                   controller_config, cumulative_dpos, joints, device_started,
                   state, current, action, episode, streak, polled, stepped>>

\* lines 68-79
LoadConfig ==
    /\ UNCHANGED <<drotation, done, ops, cumulative_at_poll>>
    /\ pc = "load_config"
    /\ IF file_exists
       THEN /\ controller_config' = LoadedConfig(controller)
            /\ cumulative_dpos' = InitialCumulative(controller)
            /\ UNCHANGED printed
       ELSE /\ printed' = printed \cup {"Error opening default controller filepath"}
            /\ UNCHANGED <<controller_config, cumulative_dpos>>
    /\ pc' = "make_env"
    /\ UNCHANGED <<controller, device_choice, robot_name, file_exists, joints,
                   device_started, state, current, action, episode, streak,
                   polled, stepped, error>>

\* lines 81-92
MakeEnv ==
    /\ UNCHANGED <<drotation, done, ops, cumulative_at_poll>>
    /\ pc = "make_env"
    /\ joints' = [by |-> "robosuite.make", q |-> <<>>]
    /\ pc' = "init_device"
    /\ UNCHANGED <<controller, device_choice, robot_name, file_exists,
                   controller_config, cumulative_dpos, device_started, state,
                   current, action, episode, streak, polled, stepped, printed,
                   error>>

\* lines 94-109
InitDevice ==
    /\ UNCHANGED <<drotation, done, ops, cumulative_at_poll>>
    /\ pc = "init_device"
    /\ IF DeviceSupported(device_choice)
       THEN /\ pc' = "episode_start"
            /\ UNCHANGED error
       ELSE /\ pc' = "crashed"
            /\ error' = "Exception"
    /\ UNCHANGED <<controller, device_choice, robot_name, file_exists,
                   controller_config, cumulative_dpos, joints, device_started,
                   state, current, action, episode, streak, polled, stepped,
                   printed>>

\* lines 111-114: obs = env.reset(); set_camera; render
EpisodeStart ==
    /\ ops' = <<"env.reset", "env.viewer.set_camera", "env.render">>
    /\ UNCHANGED <<drotation, done, cumulative_at_poll>>
    /\ pc = "episode_start"
    /\ joints' = ResetJoints
    /\ episode' = episode + 1
    /\ streak' = 0
    /\ pc' = "rehome"
    /\ UNCHANGED <<controller, device_choice, robot_name, file_exists,
                   controller_config, cumulative_dpos, device_started, state,
                   current, action, polled, stepped, printed, error>>

\* lines 116-125
Rehome ==
    /\ UNCHANGED <<drotation, done, cumulative_at_poll>>
    /\ pc = "rehome"
    /\ IF RobotRecognized(robot_name)
       THEN /\ joints' = RehomedJoints(robot_name, joints)
            /\ ops' = ops \o RehomeOps(robot_name)
            /\ pc' = "start_control"
            /\ UNCHANGED <<printed, error>>
       ELSE /\ printed' = printed \cup {"Error: Script supported for Sawyer and Panda robots only!"}
            /\ pc' = "exited"
            /\ error' = "SystemExit"
            /\ ops' = Append(ops, "sys.exit")
            /\ UNCHANGED joints
    /\ UNCHANGED <<controller, device_choice, robot_name, file_exists,
                   controller_config, cumulative_dpos, device_started, state,
                   current, action, episode, streak, polled, stepped>>

\* line 127
StartControl ==
    /\ ops' = Append(ops, "device.start_control")
    /\ UNCHANGED <<drotation, done, cumulative_at_poll>>
    /\ pc = "start_control"
    /\ device_started' = TRUE
    /\ pc' = "poll"
    /\ UNCHANGED <<controller, device_choice, robot_name, file_exists,
                   controller_config, cumulative_dpos, joints, state, current,
                   action, episode, streak, polled, stepped, printed, error>>

\* lines 129-139: state = device.get_controller_state(); if reset: break
Poll ==
    /\ ops' = <<"device.get_controller_state">>
    /\ cumulative_at_poll' = cumulative_dpos
    /\ UNCHANGED <<drotation, done>>
    /\ pc = "poll"
    /\ \E d \in DposValues, r \in Rotations, rs \in BOOLEAN :
       \E g \in GraspFor(r) \cap GraspValues :
          /\ rs => episode < MaxEpisodes
          /\ (~rs /\ ~AccumulatorMissing(controller, cumulative_dpos))
                => (controller = "osc"
                      => InBounds(NextCumulative(controller, cumulative_dpos, d)))
          /\ state' = [dpos |-> d, rotation |-> r, grasp |-> g, reset |-> rs]
          /\ pc' = AfterPoll(rs)
    /\ polled' = TRUE
    /\ UNCHANGED <<controller, device_choice, robot_name, file_exists,
                   controller_config, cumulative_dpos, joints, device_started,
                   current, action, episode, streak, stepped, printed, error>>

\* lines 141-162: read the end-effector orientation and build the action
Assemble ==
    /\ UNCHANGED <<done, cumulative_at_poll>>
    /\ pc = "assemble"
    /\ \E cur \in Rotations :
          /\ current' = cur
          /\ drotation' = Drotation(cur, state.rotation)
          /\ IF AccumulatorMissing(controller, cumulative_dpos)
             THEN /\ pc' = "crashed"
                  /\ error' = "NameError"
                  /\ UNCHANGED <<cumulative_dpos, action, streak, ops>>
             ELSE /\ cumulative_dpos' =
                        NextCumulative(controller, cumulative_dpos, state.dpos)
                  /\ action' = Concatenate(
                        PositionTerm(controller, cumulative_dpos, state.dpos),
                        RotationTerm(controller, Drotation(cur, state.rotation)),
                        GraspRemap(state.grasp))
                  /\ streak' = IF streak >= 0 /\ streak < 3 /\ state.dpos = UnitX
                               THEN streak + 1 ELSE -1
                  /\ ops' = ops \o AccumulateOps(controller) \o <<"np.concatenate">>
                  /\ pc' = "step"
                  /\ UNCHANGED error
    /\ UNCHANGED <<controller, device_choice, robot_name, file_exists,
                   controller_config, joints, device_started, state, episode,
                   polled, stepped, printed>>

\* line 163: obs, reward, done, info = env.step(action)
Step ==
    /\ done' \in BOOLEAN
    /\ ops' = Append(ops, "env.step")
    /\ UNCHANGED <<drotation, cumulative_at_poll>>
    /\ pc = "step"
    /\ joints' = MovedJoints
    /\ stepped' = TRUE
    /\ pc' = "render"
    /\ UNCHANGED <<controller, device_choice, robot_name, file_exists,
                   controller_config, cumulative_dpos, device_started, state,
                   current, action, episode, streak, polled, printed, error>>

\* line 164: env.render()
Render ==
    /\ pc = "render"
    /\ pc' = AfterRender(done)
    /\ ops' = Append(ops, "env.render")
    /\ UNCHANGED <<drotation, done, cumulative_at_poll>>
    /\ UNCHANGED <<controller, device_choice, robot_name, file_exists,
                   controller_config, cumulative_dpos, joints, device_started,
                   state, current, action, episode, streak, polled, stepped,
                   printed, error>>

Next ==
    \/ SelectController
    \/ LoadConfig
    \/ MakeEnv
    \/ InitDevice
    \/ EpisodeStart
    \/ Rehome
    \/ StartControl
    \/ Poll
    \/ Assemble
    \/ Step
    \/ Render

Spec == Init /\ [][Next]_vars

TypeOK ==
    /\ pc \in {"select_controller", "load_config", "make_env", "init_device",
               "episode_start", "rehome", "start_control", "poll", "assemble",
               "step", "render", "exited", "crashed"}
    /\ episode \in 0..MaxEpisodes
    /\ streak \in -1..3
    /\ cumulative_dpos = Undefined \/ InBounds(cumulative_dpos)

----------------------------------------------------------------------------
(* Properties *)

PositionOf(a) == SubSeq(a, 1, 3)
GraspOf(a) == a[Len(a)]
FirstPoll == pc = "poll" /\ streak = 0
InLoop == {"start_control", "poll", "assemble", "step", "render"}

\* C1: in OSC mode the accumulator is zero at the first poll of every
\* episode, whatever it was at the end of the previous episode.
C1_ResetLaw ==
    (controller = "osc" /\ FirstPoll /\ cumulative_dpos # Undefined)
        => cumulative_dpos = Zero3

\* C2 (as stated): at the first poll of every episode a recognized robot
\* (sawyer or panda) has had its joints set to its fixed configuration.
C2_EveryRobotRehomed ==
    (FirstPoll /\ robot_name \in {"sawyer", "panda"})
        => joints.by = "env.set_robot_joint_positions"

\* C2 (amended): at the first poll of every episode a panda has had its
\* joints set to the fixed panda configuration after env.reset(); a sawyer
\* still has the joints env.reset() left, no configuration is set for it.
C2_PandaRehomed ==
    FirstPoll =>
        /\ robot_name = "panda" =>
              joints = [by |-> "env.set_robot_joint_positions",
                        q |-> <<0, 19, 0, -261, 0, 294, -78>>]
        /\ robot_name = "sawyer" => joints = [by |-> "env.reset", q |-> <<>>]

C2_Witness ==
    /\ FirstPoll
    /\ episode = 2
    /\ robot_name = "panda"
    /\ joints.by = "env.set_robot_joint_positions"

\* C3: in OSC mode the submitted position term is the accumulator after it
\* grew by 0.1 * dpos, and the k-th of up to three consecutive ticks with
\* dpos = (1,0,0) from an episode start submits (0.1 * k, 0, 0).
C3_Scenario ==
    (controller = "osc" /\ pc = "step") =>
        /\ PositionOf(action) = cumulative_dpos
        /\ streak \in 1..3 => PositionOf(action) = <<10 * streak, 0, 0>>

\* C4: in IK mode the submitted position term is the raw dpos of the tick's
\* snapshot, and the accumulator is never bound, read or changed.
C4_IKPassThrough ==
    controller = "ik" =>
        /\ cumulative_dpos = Undefined
        /\ error # "NameError"
        /\ pc \in {"step", "render"} => PositionOf(action) = state.dpos

C4_Witness ==
    /\ controller = "ik"
    /\ pc = "step"
    /\ state.dpos = UnitX
    /\ PositionOf(action) = UnitX

\* C5: with an unrecognized robot the process ends at the first episode
\* start: device input collection is never started, the device is never
\* polled and no action is assembled or submitted.
C5_UnsupportedRobotExits ==
    robot_name \notin {"sawyer", "panda"} =>
        /\ ~device_started
        /\ ~polled
        /\ ~stepped
        /\ action = NoAction
        /\ pc \notin InLoop
        /\ episode <= 1
        /\ (episode = 1 /\ pc # "rehome") => (pc = "exited" /\ error = "SystemExit")

C5_Witness ==
    /\ robot_name = "baxter"
    /\ pc = "exited"
    /\ episode = 1
    /\ ~device_started

\* C6: once the missing controller configuration file has been reported,
\* no environment reset of the loop, device poll or environment step happens.
C6_MissingFileAborts ==
    ("Error opening default controller filepath" \in printed)
        => (episode = 0 /\ ~polled /\ ~stepped)

\* C7: for a recognized robot the loop, once started, never reaches a
\* terminated or crashed state.
C7_LoopNeverEnds ==
    (robot_name \in {"sawyer", "panda"} /\ episode >= 1)
        => pc \notin {"exited", "crashed"}

\* C8: an unsupported controller or device choice aborts the process before
\* the loop: no env.reset() of the loop, no device poll, no env.step().
C8_BadChoiceAborts ==
    (controller \notin {"ik", "osc"} \/ device_choice \notin {"keyboard", "spacemouse"}) =>
        /\ episode = 0
        /\ ~polled
        /\ ~stepped
        /\ ~device_started
        /\ pc \in {"select_controller", "load_config", "make_env", "init_device", "crashed"}
        /\ controller \notin {"ik", "osc"} => pc \in {"select_controller", "crashed"}
        /\ pc = "crashed" => error \in {"ValueError", "Exception"}

C8_Witness ==
    /\ controller = "osc"
    /\ device_choice = "gamepad"
    /\ pc = "crashed"
    /\ error = "Exception"
    /\ episode = 0

GraspImage == {GraspRemap(g) : g \in 0..(2 * One)}

\* C9: the grasp term of every submitted action is the snapshot's raw grasp
\* minus 1 in both modes; the remap sends [0,2] one-to-one onto [-1,1],
\* with 0 -> -1, 1 -> 0, 2 -> 1 and 1.7 -> 0.7.
C9_GraspRemap ==
    /\ GraspImage = (-One)..One
    /\ pc \in {"step", "render"} =>
          /\ GraspOf(action) = state.grasp - 100
          /\ state.grasp = 0 => GraspOf(action) = -100
          /\ state.grasp = 100 => GraspOf(action) = 0
          /\ state.grasp = 200 => GraspOf(action) = 100
          /\ state.grasp = 170 => GraspOf(action) = 70

C9_Witness ==
    /\ pc = "step"
    /\ controller = "osc"
    /\ state.grasp = 170
    /\ GraspOf(action) = 70

\* C10: in OSC mode a tick whose snapshot has dpos = 0 leaves the
\* accumulator unchanged and submits it as the position term.
C10_ZeroDposKeeps ==
    [][(controller = "osc" /\ pc = "assemble" /\ pc' = "step" /\ state.dpos = Zero3)
          => (cumulative_dpos' = cumulative_dpos /\ PositionOf(action') = cumulative_dpos)]_vars

C10_Witness ==
    /\ controller = "osc"
    /\ pc = "step"
    /\ state.dpos = Zero3
    /\ cumulative_dpos = <<20, 0, 0>>
    /\ PositionOf(action) = cumulative_dpos
    /\ streak = -1

Det(M) ==
    M[1][1] * (M[2][2] * M[3][3] - M[2][3] * M[3][2])
    - M[1][2] * (M[2][1] * M[3][3] - M[2][3] * M[3][1])
    + M[1][3] * (M[2][1] * M[3][2] - M[2][2] * M[3][1])

\* the rows of M are unit vectors, pairwise orthogonal, and M keeps orientation
Orthonormal(M) ==
    /\ \A i, j \in 1..3 :
          M[i][1] * M[j][1] + M[i][2] * M[j][2] + M[i][3] * M[j][3]
             = (IF i = j THEN 1 ELSE 0)
    /\ Det(M) = 1

\* C11: for orthonormal R (end-effector) and D (device) the relative rotation
\* is transpose(R) . D, a function of R and D alone; it is orthonormal, and
\* it is the identity exactly when D = R.
C11_FrameResolver ==
    pc \in {"step", "render"} =>
        /\ Orthonormal(current) /\ Orthonormal(state.rotation)
        /\ drotation = [i \in 1..3 |-> [j \in 1..3 |->
                           current[1][i] * state.rotation[1][j]
                         + current[2][i] * state.rotation[2][j]
                         + current[3][i] * state.rotation[3][j]]]
        /\ Orthonormal(drotation)
        /\ (drotation = <<<<1, 0, 0>>, <<0, 1, 0>>, <<0, 0, 1>>>>) <=> (state.rotation = current)

C11_Witness ==
    /\ pc = "step"
    /\ current = RotZ90
    /\ state.rotation = RotZ90
    /\ drotation = I3
    /\ cumulative_dpos # Undefined
    /\ cumulative_dpos # Zero3

\* C12: a poll whose snapshot has reset = true assembles and submits no
\* action, steps and renders nothing and leaves the accumulator alone; the
\* next operation on the environment is the env.reset() of a new episode.
C12_ResetTick ==
    [][ /\ (pc = "poll" /\ pc' # "poll" /\ state'.reset) =>
              /\ pc' = "episode_start"
              /\ ops' = <<"device.get_controller_state">>
              /\ UNCHANGED <<action, cumulative_dpos, stepped, joints, done, episode>>
        /\ (pc = "episode_start" /\ pc' # "episode_start") =>
              /\ ops'[1] = "env.reset"
              /\ episode' = episode + 1
              /\ UNCHANGED <<action, cumulative_dpos, stepped, done>>
      ]_vars

C12_Witness ==
    /\ pc = "episode_start"
    /\ episode = 1
    /\ state.reset
    /\ state.dpos = UnitX
    /\ ops = <<"device.get_controller_state">>
    /\ cumulative_dpos = <<10, 0, 0>>
    /\ PositionOf(action) = <<10, 0, 0>>

TickOps ==
    <<"device.get_controller_state">>
      \o (IF controller = "osc" THEN <<"cumulative_dpos +=">> ELSE <<>>)
      \o <<"np.concatenate", "env.step", "env.render">>

AfterTick == pc = "poll" /\ streak # 0

\* C13: a tick is poll, (in OSC mode one update of the accumulator,) action
\* assembly, one env.step, one env.render, in this order and complete before
\* the next poll; every env.step has the poll of its tick before it.
C13_TickOrder ==
    /\ pc = "assemble" => (ops = SubSeq(TickOps, 1, 1) /\ ~state.reset)
    /\ pc = "step" => ops = SubSeq(TickOps, 1, Len(TickOps) - 2)
    /\ pc = "render" => ops = SubSeq(TickOps, 1, Len(TickOps) - 1)
    /\ AfterTick => ops = TickOps
    /\ (controller = "osc" /\ (pc \in {"step", "render"} \/ AfterTick)) =>
          cumulative_dpos = [i \in 1..3 |->
              cumulative_at_poll[i] + (state.dpos[i] * 10) \div 100]

C13_Witness ==
    /\ AfterTick
    /\ controller = "osc"
    /\ streak = 2
    /\ ops = <<"device.get_controller_state", "cumulative_dpos +=",
               "np.concatenate", "env.step", "env.render">>
    /\ cumulative_at_poll = <<10, 0, 0>>
    /\ cumulative_dpos = <<20, 0, 0>>

LoopState ==
    IF pc \in {"select_controller", "load_config", "make_env", "init_device"}
       \/ (pc = "crashed" /\ episode = 0)
    THEN "STARTUP"
    ELSE IF pc = "episode_start" THEN
         (IF episode = 0 THEN "EPISODE_START" ELSE "RESET_REQUESTED")
    ELSE IF pc \in {"rehome", "start_control"} THEN "EPISODE_START"
    ELSE IF pc \in {"poll", "assemble", "step", "render"} THEN "RUNNING"
    ELSE "terminated"

AllowedTransitions ==
    { <<"EPISODE_START", "EPISODE_START">>, <<"EPISODE_START", "RUNNING">>,
      <<"RUNNING", "RUNNING">>, <<"RUNNING", "RESET_REQUESTED">>,
      <<"RESET_REQUESTED", "RESET_REQUESTED">>,
      <<"RESET_REQUESTED", "EPISODE_START">>,
      <<"EPISODE_START", "terminated">>, <<"terminated", "terminated">> }

EpisodeOps ==
    <<"env.reset", "env.viewer.set_camera", "env.render">>
      \o (IF robot_name = "panda" THEN <<"env.set_robot_joint_positions">> ELSE <<>>)
      \o <<"device.start_control">>

\* C14: the loop only moves EPISODE_START -> RUNNING, RUNNING -> RUNNING,
\* RUNNING -> RESET_REQUESTED -> EPISODE_START and EPISODE_START ->
\* terminated; each episode has one env.reset() and one start_control()
\* before its first poll, and start_control() follows the robot check.
C14_LoopTransitions ==
    [][ /\ LoopState # "STARTUP" => <<LoopState, LoopState'>> \in AllowedTransitions
        /\ FirstPoll' => ops' = EpisodeOps'
        /\ device_started' => robot_name \in {"sawyer", "panda"}
      ]_vars

\* C15: every submitted action is translation (3), then rotation, then
\* grasp (1); the rotation is a quaternion in IK mode (length 8) and an
\* Euler triple in OSC mode (length 7), fixed by the controller choice.
C15_ActionLayout ==
    pc \in {"step", "render"} =>
        /\ Len(action) = (IF controller = "ik" THEN 8 ELSE 7)
        /\ SubSeq(action, 1, 3) =
              (IF controller = "ik" THEN state.dpos ELSE cumulative_dpos)
        /\ SubSeq(action, 4, Len(action) - 1) =
              (IF controller = "ik" THEN mat2quat(drotation) ELSE mat2euler(drotation))
        /\ action[Len(action)] = state.grasp - 100

C15_Witness ==
    /\ pc = "step"
    /\ controller = "ik"
    /\ drotation = RotZ90
    /\ action = <<100, 0, 0, 0, 0, 71, 71, 70>>

\* C16: env.reset() is called only at program start or after a snapshot with
\* reset = true; whatever env.step returns (done included), the tick goes on
\* to render and to the next poll, with the accumulator left as it is.
C16_DoneIgnored ==
    [][ /\ episode' # episode =>
              (pc = "episode_start" /\ (episode = 0 \/ state.reset))
        /\ (pc = "step" /\ pc' # "step") =>
              (pc' = "render" /\ UNCHANGED <<cumulative_dpos, episode>>)
        /\ (pc = "render" /\ pc' # "render") =>
              (pc' = "poll" /\ UNCHANGED <<cumulative_dpos, episode, done>>)
      ]_vars

C16_Witness ==
    /\ AfterTick
    /\ done
    /\ episode = 1
    /\ ~state.reset
    /\ controller = "osc"
    /\ cumulative_dpos = <<10, 0, 0>>

OutOfRange(v) == \E i \in 1..3 : v[i] > 100 \/ v[i] < -100

\* C17: nothing is clamped before submission: in OSC mode, once the
\* accumulator has left [min_action, max_action] = [-1, 1], the submitted
\* position term is still the accumulator, out of range as it is.
C17_NoClamping ==
    (controller = "osc" /\ pc \in {"step", "render"} /\ OutOfRange(cumulative_dpos)) =>
        /\ PositionOf(action) = cumulative_dpos
        /\ OutOfRange(PositionOf(action))
        /\ pc = "render" => stepped

C17_Witness ==
    /\ controller = "osc"
    /\ pc = "render"
    /\ stepped
    /\ state.dpos = <<0, -600, 0>>
    /\ cumulative_at_poll = <<0, -60, 0>>
    /\ PositionOf(action) = <<0, -120, 0>>

====
